---- MODULE Spec2Model ----
(***************************************************************************)
(* SecureVaultDB: the contract's storage, the FHE access-control list it   *)
(* writes through FHE.allow / FHE.allowThis, and its three transactions    *)
(* createDatabase, grantAccess and storeValue.  Every transaction is one   *)
(* atomic step (an EVM transaction commits whole or reverts whole).        *)
(***************************************************************************)
EXTENDS Integers, Sequences, FiniteSets, TLC

\* ---------------------------------------------------------------- bounds
NumUsers == 2        \* externally owned accounts that send transactions
MaxDatabases == 2    \* successful createDatabase calls explored
MaxRecords == 2      \* successful storeValue calls explored per database
MaxInputs == 1       \* encrypted inputs each account has per encrypted type
MaxTimestamp == 1    \* block timestamps explored: 1..MaxTimestamp

\* ------------------------------------------------------------- addresses
ZeroAddress == 0
Users == 1..NumUsers
ThisAddress == NumUsers + 1
Addresses == ZeroAddress..ThisAddress
DatabaseIds == 0..MaxDatabases
Names == {<< >>, <<"o", "p", "s">>}
Timestamps == 1..MaxTimestamp

\* ------------------------------------------------ ciphertext handles, FHE
EncryptedTypes == {"eaddress", "euint32"}
Handles == [type : EncryptedTypes, user : Users, n : 1..MaxInputs]
NoHandle == [type |-> "none", user |-> ZeroAddress, n |-> 0]
\* What a caller can put in an externalEaddress / externalEuint32 argument.
ExternalEaddress == {h \in Handles : h.type = "eaddress"}
ExternalEuint32 == {h \in Handles : h.type = "euint32"}

\* FHE.fromExternal: the input verifier accepts a handle whose proof is valid
\* for this contract and the calling account, and whose type is the one asked
\* for; the handle it returns is the input handle.
InputVerifies(inputHandle, inputProof, sender, type) ==
    /\ inputProof
    /\ inputHandle.user = sender
    /\ inputHandle.type = type

fromExternal(inputHandle) == inputHandle

\* An access handle taken for uninitialized: its grant is skipped.
isInitializedNever(handle) == FALSE

isInitialized(handle) == handle # NoHandle

allow(acl, handle, account) == [acl EXCEPT ![handle] = @ \cup {account}]

\* The contract is not allowed on the handle.
allowThisSkipped(acl, handle) == acl

allowThis(acl, handle) == allow(acl, handle, ThisAddress)

\* ----------------------------------------------------------------- state
VARIABLES _nextDatabaseId, _databases, _databasesByOwner, _records,
          _authorizedUsers, _isAuthorized, allowed, blockTimestamp, receipt,
          frame

vars == <<_nextDatabaseId, _databases, _databasesByOwner, _records,
          _authorizedUsers, _isAuthorized, allowed, blockTimestamp, receipt,
          frame>>

Database == [owner |-> ZeroAddress, name |-> << >>,
             encryptedAccessAddress |-> NoHandle, createdAt |-> 0]

\* The contract's storage and the ACL entries of its handles, as one value.
Storage ==
    [_nextDatabaseId |-> _nextDatabaseId,
     _databases |-> _databases,
     _databasesByOwner |-> _databasesByOwner,
     _records |-> _records,
     _authorizedUsers |-> _authorizedUsers,
     _isAuthorized |-> _isAuthorized,
     allowed |-> allowed]

\* ------------------------------------------------------ transaction ends
Ok == "ok"
NameRequired == "Name required"
InvalidCiphertext == "InvalidCiphertext"
DatabaseNotFound == "Database not found"
InvalidUser == "Invalid user"
OnlyOwner == "Only owner"
NotAuthorized == "Not authorized"
InvalidIndex == "Invalid index"
Panic == "Panic"

\* The call ends with the error but keeps a write made before it: the id
\* counter already advanced.
ReturnError(st, reason) ==
    [storage |-> [st EXCEPT !._nextDatabaseId = @ + 1], status |-> reason,
     logs |-> << >>, ret |-> 0]

Revert(st, reason) == [storage |-> st, status |-> reason, logs |-> << >>, ret |-> 0]

Return(st, logs, ret) == [storage |-> st, status |-> Ok, logs |-> logs, ret |-> ret]

DatabaseCreated(databaseId, owner, name) ==
    [event |-> "DatabaseCreated", databaseId |-> databaseId, account |-> owner,
     name |-> name, recordIndex |-> 0]

\* The event reports the record count after the push, not the new index.
RecordStoredCount(databaseId, recordIndex) ==
    [event |-> "RecordStored", databaseId |-> databaseId, account |-> ZeroAddress,
     name |-> << >>, recordIndex |-> recordIndex + 1]

RecordStored(databaseId, recordIndex) ==
    [event |-> "RecordStored", databaseId |-> databaseId, account |-> ZeroAddress,
     name |-> << >>, recordIndex |-> recordIndex]

AccessGranted(databaseId, grantee) ==
    [event |-> "AccessGranted", databaseId |-> databaseId, account |-> grantee,
     name |-> << >>, recordIndex |-> 0]

\* ------------------------------------------------------------- modifiers
\* Existence is read off the counter: every id up to it passes, 0 included.
databaseExistsByCounter(st, databaseId) == databaseId <= st._nextDatabaseId

databaseExists(st, databaseId) == st._databases[databaseId].owner # ZeroAddress

\* -------------------------------------------------------- createDatabase
nameGiven(name) == Len(name) > 0

\* databaseId = _nextDatabaseId++ : the id handed out is the old counter.
postIncrementDatabaseId(st) ==
    [databaseId |-> st._nextDatabaseId, _nextDatabaseId |-> st._nextDatabaseId + 1]

\* databaseId = _nextDatabaseId + 1 : the counter is never written back.
stuckDatabaseId(st) ==
    [databaseId |-> st._nextDatabaseId + 1, _nextDatabaseId |-> st._nextDatabaseId]

\* The counter advances by two: an id is left out at each creation.
skipDatabaseId(st) ==
    [databaseId |-> st._nextDatabaseId + 2, _nextDatabaseId |-> st._nextDatabaseId + 2]

\* databaseId = ++_nextDatabaseId : the counter after the step is the new id.
incrementDatabaseId(st) ==
    [databaseId |-> st._nextDatabaseId + 1, _nextDatabaseId |-> st._nextDatabaseId + 1]

\* The owner's list is replaced by the new id instead of growing by it.
pushDatabaseIdAlone(owned, databaseId) == <<databaseId>>

\* _databasesByOwner[msg.sender].push(databaseId)
pushDatabaseId(owned, databaseId) == Append(owned, databaseId)

\* The member map of the database is rebuilt around the one user.
authorizeAlone(isAuth, databaseId, user) ==
    [isAuth EXCEPT ![databaseId] = [a \in DOMAIN @ |-> a = user]]

\* Membership is keyed by the user alone: the user is set in every database.
authorizeEverywhere(isAuth, databaseId, user) ==
    [d \in DOMAIN isAuth |-> [isAuth[d] EXCEPT ![user] = TRUE]]

\* _isAuthorized[databaseId][user] = true
authorize(isAuth, databaseId, user) == [isAuth EXCEPT ![databaseId][user] = TRUE]

\* The user is put at the head of the list.
pushUserFirst(shared, user) == <<user>> \o shared

\* _authorizedUsers[databaseId].push(user)
pushUser(shared, user) == Append(shared, user)

createDatabase(st, sender, name, encryptedAddress, addressProof, timestamp) ==
    IF ~nameGiven(name) THEN Revert(st, NameRequired)
    ELSE IF ~InputVerifies(encryptedAddress, addressProof, sender, "eaddress")
    THEN Revert(st, InvalidCiphertext)
    ELSE
      LET storedAddress == fromExternal(encryptedAddress)
          databaseId == incrementDatabaseId(st).databaseId
          db == [owner |-> sender, name |-> name,
                 encryptedAccessAddress |-> storedAddress, createdAt |-> timestamp]
          acl1 == allowThis(st.allowed, storedAddress)
          acl2 == allow(acl1, storedAddress, sender)
      IN Return([st EXCEPT
                   !._nextDatabaseId = incrementDatabaseId(st)._nextDatabaseId,
                   !._databases[databaseId] = db,
                   !._databasesByOwner[sender] = pushDatabaseId(@, databaseId),
                   !._isAuthorized = authorize(@, databaseId, sender),
                   !._authorizedUsers[databaseId] = pushUser(@, sender),
                   !.allowed = acl2],
                <<DatabaseCreated(databaseId, sender, name)>>,
                databaseId)

\* ----------------------------------------------------------- grantAccess
\* The zero address is let through.
validUserAlways(user) == TRUE

\* The user is compared with the contract's address instead of address(0).
validUserNotThis(user) == user # ThisAddress

validUser(user) == user # ZeroAddress

\* Any member of the database may grant.
onlyOwnerOrMember(st, databaseId, sender) ==
    \/ st._databases[databaseId].owner = sender
    \/ st._isAuthorized[databaseId][sender]

\* The owner check is missing: any caller may grant.
onlyOwnerSkipped(st, databaseId, sender) == TRUE

onlyOwner(st, databaseId, sender) == st._databases[databaseId].owner = sender

\* The early return on an authorized user is missing.
alreadyAuthorizedNever(st, databaseId, user) == FALSE

alreadyAuthorized(st, databaseId, user) == st._isAuthorized[databaseId][user]

\* The loop stops one record early: i < stored.length - 1.
RECURSIVE allowStoredButLast(_, _, _, _)
allowStoredButLast(acl, stored, i, user) ==
    IF i < Len(stored) - 1
    THEN allowStoredButLast(allow(acl, stored[i + 1], user), stored, i + 1, user)
    ELSE acl

\* The grant does not reach the records stored before it: the loop is missing.
allowStoredNone(acl, stored, i, user) == acl

\* for (uint256 i = 0; i < stored.length; i++) FHE.allow(stored[i], user);
RECURSIVE allowStored(_, _, _, _)
allowStored(acl, stored, i, user) ==
    IF i < Len(stored)
    THEN allowStored(allow(acl, stored[i + 1], user), stored, i + 1, user)
    ELSE acl

grantAccess(st, sender, databaseId, user) ==
    IF ~databaseExists(st, databaseId) THEN Revert(st, DatabaseNotFound)
    ELSE IF ~validUser(user) THEN Revert(st, InvalidUser)
    ELSE IF ~onlyOwner(st, databaseId, sender) THEN Revert(st, OnlyOwner)
    ELSE IF alreadyAuthorized(st, databaseId, user) THEN Return(st, << >>, 0)
    ELSE
      LET encryptedAddress == st._databases[databaseId].encryptedAccessAddress
          acl1 == IF isInitialized(encryptedAddress)
                  THEN allow(st.allowed, encryptedAddress, user)
                  ELSE st.allowed
          stored == st._records[databaseId]
          acl2 == allowStored(acl1, stored, 0, user)
      IN Return([st EXCEPT
                   !._isAuthorized = authorize(@, databaseId, user),
                   !._authorizedUsers[databaseId] = pushUser(@, user),
                   !.allowed = acl2],
                <<AccessGranted(databaseId, user)>>,
                0)

\* ------------------------------------------------------------ storeValue
\* The membership check is missing: anyone may write.
senderAuthorizedAlways(st, databaseId, sender) == TRUE

\* Only the owner may write.
senderIsOwner(st, databaseId, sender) == st._databases[databaseId].owner = sender

senderAuthorized(st, databaseId, sender) == st._isAuthorized[databaseId][sender]

\* The new record is shared with nobody but the owner: the loop is missing.
allowSharedNone(acl, value, shared, i) == acl

\* The loop stops one user early: i < shared.length - 1.
RECURSIVE allowSharedButLast(_, _, _, _)
allowSharedButLast(acl, value, shared, i) ==
    IF i < Len(shared) - 1
    THEN allowSharedButLast(allow(acl, value, shared[i + 1]), value, shared, i + 1)
    ELSE acl

\* for (uint256 i = 0; i < shared.length; i++) FHE.allow(value, shared[i]);
RECURSIVE allowShared(_, _, _, _)
allowShared(acl, value, shared, i) ==
    IF i < Len(shared)
    THEN allowShared(allow(acl, value, shared[i + 1]), value, shared, i + 1)
    ELSE acl

\* The value is written over the last record instead of after it.
pushRecordOverLast(stored, value) ==
    IF Len(stored) = 0 THEN <<value>> ELSE [stored EXCEPT ![Len(stored)] = value]

\* The value is put before the records instead of after them.
pushRecordFirst(stored, value) == <<value>> \o stored

\* _records[databaseId].push(value)
pushRecord(stored, value) == Append(stored, value)

\* The payload is verified before the membership check.
storeValueVerifiesFirst(st, sender, databaseId, encryptedValue, valueProof) ==
    IF ~databaseExists(st, databaseId) THEN Revert(st, DatabaseNotFound)
    ELSE IF ~InputVerifies(encryptedValue, valueProof, sender, "euint32")
    THEN Revert(st, InvalidCiphertext)
    ELSE IF ~senderAuthorized(st, databaseId, sender) THEN Revert(st, NotAuthorized)
    ELSE
      LET value == fromExternal(encryptedValue)
          acl == allow(allowThis(st.allowed, value), value,
                       st._databases[databaseId].owner)
      IN Return([st EXCEPT
                   !._records[databaseId] = pushRecord(@, value),
                   !.allowed = allowShared(acl, value,
                                           st._authorizedUsers[databaseId], 0)],
                <<RecordStored(databaseId, Len(st._records[databaseId]))>>,
                0)

storeValue(st, sender, databaseId, encryptedValue, valueProof) ==
    IF ~databaseExists(st, databaseId) THEN Revert(st, DatabaseNotFound)
    ELSE IF ~senderAuthorized(st, databaseId, sender) THEN Revert(st, NotAuthorized)
    ELSE IF ~InputVerifies(encryptedValue, valueProof, sender, "euint32")
    THEN Revert(st, InvalidCiphertext)
    ELSE
      LET value == fromExternal(encryptedValue)
          records == pushRecord(st._records[databaseId], value)
          acl1 == allowThis(st.allowed, value)
          owner == st._databases[databaseId].owner
          acl2 == allow(acl1, value, owner)
          shared == st._authorizedUsers[databaseId]
          acl3 == allowShared(acl2, value, shared, 0)
      IN Return([st EXCEPT
                   !._records[databaseId] = records,
                   !.allowed = acl3],
                <<RecordStored(databaseId, Len(records) - 1)>>,
                0)

\* ----------------------------------------------------------------- views
recordCount(st, databaseId) == Len(st._records[databaseId])

getDatabase(st, databaseId) ==
    IF ~databaseExists(st, databaseId) THEN Revert(st, DatabaseNotFound)
    ELSE LET db == st._databases[databaseId]
         IN Return(st, << >>,
                   [name |-> db.name,
                    owner |-> db.owner,
                    encryptedAccessAddress |-> db.encryptedAccessAddress,
                    createdAt |-> db.createdAt,
                    recordCount |-> recordCount(st, databaseId),
                    sharedUsers |-> st._authorizedUsers[databaseId]])

getEncryptedAddress(st, databaseId) ==
    IF ~databaseExists(st, databaseId) THEN Revert(st, DatabaseNotFound)
    ELSE Return(st, << >>, st._databases[databaseId].encryptedAccessAddress)

\* for (uint256 i = 0; i < stored.length; i++) records[i] = stored[i];
RECURSIVE copyRecords(_, _, _)
copyRecords(records, stored, i) ==
    IF i < Len(stored)
    THEN copyRecords([records EXCEPT ![i + 1] = stored[i + 1]], stored, i + 1)
    ELSE records

getEncryptedRecords(st, databaseId) ==
    IF ~databaseExists(st, databaseId) THEN Revert(st, DatabaseNotFound)
    ELSE LET stored == st._records[databaseId]
             records == [i \in 1..Len(stored) |-> NoHandle]
         IN Return(st, << >>, copyRecords(records, stored, 0))

\* The bound is checked with <= : the index one past the end is let through.
indexInRangeOrEnd(st, databaseId, index) == index <= Len(st._records[databaseId])

indexInRange(st, databaseId, index) == index < Len(st._records[databaseId])

\* stored[index]: an index outside the array is a panic.
elementAt(st, stored, index) ==
    IF index < Len(stored) THEN Return(st, << >>, stored[index + 1])
    ELSE Revert(st, Panic)

getEncryptedRecord(st, databaseId, index) ==
    IF ~databaseExists(st, databaseId) THEN Revert(st, DatabaseNotFound)
    ELSE IF ~indexInRange(st, databaseId, index) THEN Revert(st, InvalidIndex)
    ELSE elementAt(st, st._records[databaseId], index)

\* An address that owns nothing is turned away instead of given an empty list.
getDatabasesByOwnerOrFail(st, ownerAddress) ==
    IF Len(st._databasesByOwner[ownerAddress]) = 0 THEN Revert(st, DatabaseNotFound)
    ELSE Return(st, << >>, st._databasesByOwner[ownerAddress])

getDatabasesByOwner(st, ownerAddress) == Return(st, << >>, st._databasesByOwner[ownerAddress])

isAuthorized(st, databaseId, user) ==
    IF ~databaseExists(st, databaseId) THEN Revert(st, DatabaseNotFound)
    ELSE Return(st, << >>, st._isAuthorized[databaseId][user])

databaseCount(st) == st._nextDatabaseId

\* ----------------------------------------------------------------- steps
\* The call whose loop is running: its arguments, the loop index i and the
\* storage it found; fn is "none" between calls.
NoCall == [fn |-> "none", sender |-> ZeroAddress, databaseId |-> 0,
           account |-> ZeroAddress, value |-> NoHandle, i |-> 0, before |-> << >>]

Init ==
    /\ _nextDatabaseId = 0
    /\ _databases = [id \in DatabaseIds |-> Database]
    /\ _databasesByOwner = [a \in Addresses |-> << >>]
    /\ _records = [id \in DatabaseIds |-> << >>]
    /\ _authorizedUsers = [id \in DatabaseIds |-> << >>]
    /\ _isAuthorized = [id \in DatabaseIds |-> [a \in Addresses |-> FALSE]]
    /\ allowed = [h \in Handles |-> {}]
    /\ blockTimestamp = 1
    /\ receipt = [fn |-> "constructor", sender |-> ZeroAddress, databaseId |-> 0,
                  status |-> Ok, logs |-> << >>, ret |-> 0]
    /\ frame = NoCall

\* A transaction's end becomes the new state; `call` is what was sent, and
\* `timestamp` the time of the block that holds it.
Commit(tx, call, timestamp) ==
    /\ _nextDatabaseId' = tx.storage._nextDatabaseId
    /\ _databases' = tx.storage._databases
    /\ _databasesByOwner' = tx.storage._databasesByOwner
    /\ _records' = tx.storage._records
    /\ _authorizedUsers' = tx.storage._authorizedUsers
    /\ _isAuthorized' = tx.storage._isAuthorized
    /\ allowed' = tx.storage.allowed
    /\ receipt' = [fn |-> call.fn, sender |-> call.sender,
                   databaseId |-> call.databaseId,
                   status |-> tx.status, logs |-> tx.logs, ret |-> tx.ret]
    /\ blockTimestamp' = timestamp
    /\ frame' = frame

\* block.timestamp never decreases from one transaction to the next.
LaterTimestamps == {t \in Timestamps : t >= blockTimestamp}

CreateDatabase ==
    \E sender \in Users, name \in Names, encryptedAddress \in ExternalEaddress,
       addressProof \in BOOLEAN, timestamp \in LaterTimestamps :
      LET tx == createDatabase(Storage, sender, name, encryptedAddress,
                               addressProof, timestamp)
      IN /\ tx.status = Ok => _nextDatabaseId < MaxDatabases
         /\ Commit(tx, [fn |-> "createDatabase", sender |-> sender, databaseId |-> 0],
                   timestamp)

GrantAccess ==
    \E sender \in Users, databaseId \in DatabaseIds, user \in Addresses,
       timestamp \in LaterTimestamps :
      LET tx == grantAccess(Storage, sender, databaseId, user)
      IN Commit(tx, [fn |-> "grantAccess", sender |-> sender,
                     databaseId |-> databaseId], timestamp)

StoreValue ==
    \E sender \in Users, databaseId \in DatabaseIds,
       encryptedValue \in ExternalEuint32, valueProof \in BOOLEAN,
       timestamp \in LaterTimestamps :
      LET tx == storeValue(Storage, sender, databaseId, encryptedValue, valueProof)
      IN /\ tx.status = Ok => Len(_records[databaseId]) < MaxRecords
         /\ Commit(tx, [fn |-> "storeValue", sender |-> sender,
                        databaseId |-> databaseId], timestamp)

Next == CreateDatabase \/ GrantAccess \/ StoreValue

Spec == Init /\ [][Next]_vars

\* ======================================================================
\* Properties
\* ======================================================================
ExistingIds == {d \in DatabaseIds : databaseExists(Storage, d)}

\* The authorization set of database d: the membership map and the list.
Members(d) ==
    {u \in Addresses : _isAuthorized[d][u]}
      \cup {_authorizedUsers[d][i] : i \in 1..Len(_authorizedUsers[d])}

RecordHandles(d) == {_records[d][i] : i \in 1..Len(_records[d])}

OwnerOf(d) == _databases[d].owner

AccessHandleOf(d) == _databases[d].encryptedAccessAddress

\* C1: in every reachable state, every identity in a database's
\* authorization set is allowed on every record handle the database holds,
\* the newest one included.
C1_MembersSeeEveryRecord ==
    \A d \in DatabaseIds : \A u \in Members(d) :
      \A i \in 1..Len(_records[d]) : u \in allowed[_records[d][i]]

\* C1 witness: a database with two records and a grantee besides the owner,
\* the newest record just stored.
C1_Witness ==
    /\ receipt.fn = "storeValue" /\ receipt.status = Ok
    /\ Len(_records[receipt.databaseId]) = 2
    /\ Cardinality(Members(receipt.databaseId)) >= 2

\* C2: in every reachable state, every identity in a database's
\* authorization set (the owner and each grantee) is allowed on the
\* database's access handle.
C2_MembersSeeAccessHandle ==
    \A d \in DatabaseIds : \A u \in Members(d) : u \in allowed[AccessHandleOf(d)]

\* C2 witness: a grantee other than the owner has just been added.
C2_Witness ==
    /\ receipt.fn = "grantAccess" /\ receipt.status = Ok /\ receipt.logs # << >>
    /\ receipt.logs[1].account # OwnerOf(receipt.databaseId)
    /\ receipt.logs[1].account \in Members(receipt.databaseId)

\* C3: in every reachable state, whoever (other than the contract itself) is
\* allowed on a database's access handle or on one of its record handles is
\* a member of that database's authorization set.
C3_OnlyMembersSee ==
    \A d \in ExistingIds : \A u \in Addresses \ {ThisAddress} :
      (\/ u \in allowed[AccessHandleOf(d)]
       \/ \E h \in RecordHandles(d) : u \in allowed[h])
        => _isAuthorized[d][u]

\* C4 as stated: for every existing database, every caller that is not its
\* owner and every identity, grantAccess fails with "Only owner" and leaves
\* the database's membership map and list unchanged.
C4_NonOwnerGrantIsNotOwner ==
    \A d \in ExistingIds : \A sender \in Users \ {OwnerOf(d)} : \A user \in Addresses :
      LET tx == grantAccess(Storage, sender, d, user)
      IN /\ tx.status = OnlyOwner
         /\ tx.storage._isAuthorized[d] = _isAuthorized[d]
         /\ tx.storage._authorizedUsers[d] = _authorizedUsers[d]

\* C4 amended: a caller that is not the owner of an existing database
\* (a member of it or not) fails with "Only owner" when the identity is not
\* the zero address and with "Invalid user" when it is; either way the
\* database's membership map and list are unchanged.
C4_NonOwnerGrantFails ==
    \A d \in ExistingIds : \A sender \in Users \ {OwnerOf(d)} : \A user \in Addresses :
      LET tx == grantAccess(Storage, sender, d, user)
      IN /\ tx.status = (IF user = ZeroAddress THEN InvalidUser ELSE OnlyOwner)
         /\ tx.storage._isAuthorized[d] = _isAuthorized[d]
         /\ tx.storage._authorizedUsers[d] = _authorizedUsers[d]

\* C4 witness: a member that is not the owner has just been refused a grant.
C4_Witness ==
    /\ receipt.fn = "grantAccess" /\ receipt.status = OnlyOwner
    /\ _isAuthorized[receipt.databaseId][receipt.sender]
    /\ receipt.sender # OwnerOf(receipt.databaseId)

\* C5: for every existing database and every caller outside its
\* authorization set, storeValue fails with "Not authorized" whatever the
\* payload and the proof, and the database's record sequence (hence its
\* record count) is unchanged.
C5_NonMemberStoreFails ==
    \A d \in ExistingIds : \A sender \in Users \ Members(d) :
      \A encryptedValue \in ExternalEuint32, valueProof \in BOOLEAN :
        LET tx == storeValue(Storage, sender, d, encryptedValue, valueProof)
        IN /\ tx.status = NotAuthorized
           /\ tx.storage._records[d] = _records[d]
           /\ Len(tx.storage._records[d]) = Len(_records[d])

\* C5 witness: a non-member has just been refused on a database that holds
\* a record.
C5_Witness ==
    /\ receipt.fn = "storeValue" /\ receipt.status = NotAuthorized
    /\ receipt.databaseId \in ExistingIds
    /\ receipt.sender \notin Members(receipt.databaseId)
    /\ Len(_records[receipt.databaseId]) >= 1

\* A step that is a grantAccess call that added a member.
GrantAdded == receipt'.fn = "grantAccess" /\ receipt'.status = Ok /\ receipt'.logs # << >>

\* C6: right after a grantAccess(d, u) that adds u, u is allowed on d's
\* access handle and on every record handle d held before the call, d's
\* record sequence is unchanged, and nobody but u gained or lost an
\* allowance on any handle.
C6_GrantIsRetroactive ==
    [][GrantAdded =>
         LET d == receipt'.databaseId
             u == receipt'.logs[1].account
         IN /\ ~_isAuthorized[d][u] /\ _isAuthorized'[d][u]
            /\ u \in allowed'[AccessHandleOf(d)]
            /\ \A i \in 1..Len(_records[d]) : u \in allowed'[_records[d][i]]
            /\ _records'[d] = _records[d]
            /\ \A h \in Handles : allowed'[h] \ {u} = allowed[h] \ {u}]_vars

\* C6 witness: a grant has just added a member to a database that already
\* held two records.
C6_Witness ==
    /\ receipt.fn = "grantAccess" /\ receipt.status = Ok /\ receipt.logs # << >>
    /\ Len(_records[receipt.databaseId]) = 2

\* A step that is a successful storeValue call.
Stored == receipt'.fn = "storeValue" /\ receipt'.status = Ok

\* C7: right after a successful storeValue on d by any member, the new
\* handle is allowed to the contract, to d's owner and to every identity
\* that was in d's authorization set at the call; the allowances of the
\* handles d held before the call, and of every handle other than the new
\* one, are unchanged.
C7_StoreSharesWithMembers ==
    [][Stored =>
         LET d == receipt'.databaseId
             value == _records'[d][Len(_records'[d])]
         IN /\ _isAuthorized[d][receipt'.sender]
            /\ ThisAddress \in allowed'[value]
            /\ OwnerOf(d) \in allowed'[value]
            /\ \A u \in Members(d) : u \in allowed'[value]
            /\ \A i \in 1..Len(_records[d]) :
                 allowed'[_records[d][i]] = allowed[_records[d][i]]
            /\ \A h \in Handles \ {value} : allowed'[h] = allowed[h]]_vars

\* C7 witness: a grantee that is not the owner has just stored the second
\* record of a database that has a further grantee.
C7_Witness ==
    /\ receipt.fn = "storeValue" /\ receipt.status = Ok
    /\ receipt.sender # OwnerOf(receipt.databaseId)
    /\ Len(_records[receipt.databaseId]) = 2
    /\ Cardinality(Members(receipt.databaseId)) = 3

\* C8: for every existing database and every member of it, owner or
\* grantee, storeValue with a payload the verifier accepts succeeds and
\* appends exactly one record: the record count grows by exactly one.
C8_MemberStoreAppendsOne ==
    \A d \in ExistingIds : \A sender \in Users \cap Members(d) :
      \A encryptedValue \in ExternalEuint32, valueProof \in BOOLEAN :
        InputVerifies(encryptedValue, valueProof, sender, "euint32") =>
          LET tx == storeValue(Storage, sender, d, encryptedValue, valueProof)
          IN /\ tx.status = Ok
             /\ Len(tx.storage._records[d]) = Len(_records[d]) + 1
             /\ tx.storage._records[d] = Append(_records[d], encryptedValue)
             /\ \A e \in DatabaseIds \ {d} : tx.storage._records[e] = _records[e]

\* C8 witness: a grantee that is not the owner has just stored a record.
C8_Witness ==
    /\ receipt.fn = "storeValue" /\ receipt.status = Ok
    /\ receipt.sender # OwnerOf(receipt.databaseId)
    /\ receipt.logs = <<RecordStored(receipt.databaseId,
                                     Len(_records[receipt.databaseId]) - 1)>>

Occurrences(seq, x) == Cardinality({i \in 1..Len(seq) : seq[i] = x})

\* C9: when the owner grants an identity that is already authorized (the
\* owner itself included), the call succeeds, changes nothing and logs
\* nothing; granting twice ends in the state granting once ends in; and an
\* authorized identity occurs exactly once in the authorized list.
C9_GrantIsIdempotent ==
    \A d \in ExistingIds :
      /\ \A u \in Members(d) :
           /\ grantAccess(Storage, OwnerOf(d), d, u) = Return(Storage, << >>, 0)
           /\ Occurrences(_authorizedUsers[d], u) = 1
      /\ \A u \in Addresses \ {ZeroAddress} :
           LET once == grantAccess(Storage, OwnerOf(d), d, u)
               twice == grantAccess(once.storage, OwnerOf(d), d, u)
           IN /\ once.status = Ok
              /\ twice = Return(once.storage, << >>, 0)
              /\ Occurrences(once.storage._authorizedUsers[d], u) = 1

\* C9 witness: the owner has just repeated a grant, on a database with a
\* grantee, and nothing was logged.
C9_Witness ==
    /\ receipt.fn = "grantAccess" /\ receipt.status = Ok /\ receipt.logs = << >>
    /\ Len(_authorizedUsers[receipt.databaseId]) >= 2

\* A step that is a successful createDatabase call.
Created == receipt'.fn = "createDatabase" /\ receipt'.status = Ok

\* C10: the first createDatabase that succeeds returns 1 and each later one
\* returns one more than the one before, whatever else is called in
\* between; no other call moves the counter; and databaseCount is at every
\* point the highest id handed out and the number of databases created.
C10_IdsIncreaseFromOne ==
    /\ databaseCount(Storage) = 0
    /\ [](/\ ExistingIds = 1..databaseCount(Storage)
          /\ databaseCount(Storage) = Cardinality(ExistingIds))
    /\ [][/\ Created =>
               /\ receipt'.ret = databaseCount(Storage) + 1
               /\ receipt'.ret \notin ExistingIds
               /\ databaseCount(Storage)' = receipt'.ret
          /\ ~Created => databaseCount(Storage)' = databaseCount(Storage)]_vars

\* C10 witness: a second database has just been created and got id 2.
C10_Witness ==
    /\ receipt.fn = "createDatabase" /\ receipt.status = Ok /\ receipt.ret = 2
    /\ databaseCount(Storage) = 2

\* A step that is a successful storeValue call on database d.
StoredOn(d) == Stored /\ receipt'.databaseId = d

\* C11: every database's record count starts at 0, grows by exactly one in
\* each successful storeValue on that database and is left alone by every
\* other call (failed storeValue calls, grants, creates, stores on other
\* databases): it never decreases and equals the number of successful
\* storeValue calls made on the database.
C11_RecordCountCountsStores ==
    /\ \A d \in DatabaseIds : recordCount(Storage, d) = 0
    /\ [][\A d \in DatabaseIds :
            /\ recordCount(Storage, d)' =
                 recordCount(Storage, d) + (IF StoredOn(d) THEN 1 ELSE 0)
            /\ d \in ExistingIds =>
                 getDatabase(Storage, d).ret.recordCount = recordCount(Storage, d)]_vars

\* C11 witness: a storeValue has just failed on a database that holds two
\* records, and a second database exists.
C11_Witness ==
    /\ receipt.fn = "storeValue" /\ receipt.status = InvalidCiphertext
    /\ recordCount(Storage, receipt.databaseId) = 2
    /\ Cardinality(ExistingIds) = 2

\* C12: the owner of a database is authorized from its creation on, and an
\* identity that isAuthorized reports true for stays so in every later
\* state.
C12_AuthorizationIsMonotonic ==
    /\ [](\A d \in ExistingIds : isAuthorized(Storage, d, OwnerOf(d)).ret)
    /\ [][/\ \A d \in ExistingIds : \A u \in Addresses :
               isAuthorized(Storage, d, u).ret => isAuthorized(Storage, d, u).ret'
          /\ Created => isAuthorized(Storage, receipt.ret, receipt.sender).ret']_vars

\* C12 witness: a database has its owner and two grantees, the second of
\* them just added.
C12_Witness ==
    /\ receipt.fn = "grantAccess" /\ receipt.status = Ok /\ receipt.logs # << >>
    /\ Cardinality({u \in Addresses : _isAuthorized[receipt.databaseId][u]}) = 3

IsAppend(after, before, x) == after = Append(before, x)

\* C13: for every database the membership map and the authorized list
\* agree: isAuthorized is true of exactly the identities in the list that
\* getDatabase returns, the list has no duplicates and starts with the
\* owner, and it only grows at its end, by the grantee of each grant that
\* succeeds in adding one.
C13_MapAndListAgree ==
    /\ [](\A d \in DatabaseIds :
            IF d \in ExistingIds
            THEN LET sharedUsers == getDatabase(Storage, d).ret.sharedUsers
                 IN /\ \A u \in Addresses :
                         isAuthorized(Storage, d, u).ret
                           <=> \E i \in 1..Len(sharedUsers) : sharedUsers[i] = u
                    /\ \A i, j \in 1..Len(sharedUsers) :
                         sharedUsers[i] = sharedUsers[j] => i = j
                    /\ sharedUsers[1] = OwnerOf(d)
            ELSE /\ _authorizedUsers[d] = << >>
                 /\ \A u \in Addresses : ~_isAuthorized[d][u])
    /\ [][\A d \in DatabaseIds :
            \/ _authorizedUsers'[d] = _authorizedUsers[d]
            \/ /\ GrantAdded /\ receipt'.databaseId = d
               /\ IsAppend(_authorizedUsers'[d], _authorizedUsers[d],
                           receipt'.logs[1].account)
            \/ /\ Created /\ receipt'.ret = d
               /\ _authorizedUsers'[d] = <<receipt'.sender>>]_vars

\* C13 witness: a list of three, the owner first and two grantees after it.
C13_Witness ==
    \E d \in ExistingIds :
      /\ Len(_authorizedUsers[d]) = 3
      /\ _authorizedUsers[d][1] = OwnerOf(d)
      /\ _authorizedUsers[d][3] # ThisAddress

IsPrefix(before, after) ==
    /\ Len(before) <= Len(after)
    /\ \A i \in 1..Len(before) : after[i] = before[i]

\* C14: every database id that was handed out occurs exactly once over all
\* owners' lists, in the list getDatabasesByOwner returns for the
\* database's owner, and no other id occurs in any list; each list is in
\* strictly increasing order and a step only ever appends to it.
C14_OwnerListsHoldEachIdOnce ==
    /\ [](/\ \A d \in ExistingIds : \A a \in Addresses :
               Occurrences(getDatabasesByOwner(Storage, a).ret, d)
                 = (IF a = OwnerOf(d) THEN 1 ELSE 0)
          /\ \A a \in Addresses :
               LET owned == getDatabasesByOwner(Storage, a).ret
               IN /\ \A i \in 1..Len(owned) : owned[i] \in ExistingIds
                  /\ \A i, j \in 1..Len(owned) : i < j => owned[i] < owned[j])
    /\ [][\A a \in Addresses :
            /\ IsPrefix(_databasesByOwner[a], _databasesByOwner'[a])
            /\ _databasesByOwner'[a] # _databasesByOwner[a] =>
                 /\ Created /\ receipt'.sender = a
                 /\ IsAppend(_databasesByOwner'[a], _databasesByOwner[a],
                             receipt'.ret)]_vars

\* C14 witness: one owner holds databases 1 and 2 in that order.
C14_Witness == \E a \in Users : _databasesByOwner[a] = <<1, 2>>

\* C15: once a database exists, no step (a create, a grant or a store, on
\* this or another database, successful or failed) changes its owner, name,
\* access handle or creation time.
C15_MetadataIsImmutable ==
    [][\A d \in ExistingIds :
         /\ _databases'[d].owner = _databases[d].owner
         /\ _databases'[d].name = _databases[d].name
         /\ _databases'[d].encryptedAccessAddress = _databases[d].encryptedAccessAddress
         /\ _databases'[d].createdAt = _databases[d].createdAt
         /\ getDatabase(Storage, d).ret.owner = _databases[d].owner
         /\ getEncryptedAddress(Storage, d).ret = _databases[d].encryptedAccessAddress]_vars

\* C15 witness: database 1 has lived through a grant, a store and the
\* creation of database 2 by another account.
C15_Witness ==
    /\ receipt.fn = "createDatabase" /\ receipt.status = Ok /\ receipt.ret = 2
    /\ OwnerOf(1) # OwnerOf(2)
    /\ Len(_records[1]) >= 1
    /\ Len(_authorizedUsers[1]) >= 2

\* C16: every database's record sequence only grows at its end: what it
\* held before a step is a prefix of what it holds after, a successful
\* storeValue puts its handle at the index that was the record count and
\* reports that index, and no other step changes the sequence.
C16_RecordsAreAppendOnly ==
    [][\A d \in DatabaseIds :
         /\ IsPrefix(_records[d], _records'[d])
         /\ IF StoredOn(d)
            THEN /\ Len(_records'[d]) = Len(_records[d]) + 1
                 /\ receipt'.logs = <<RecordStored(d, Len(_records[d]))>>
                 /\ _records'[d][Len(_records[d]) + 1].user = receipt'.sender
            ELSE _records'[d] = _records[d]]_vars

\* C16 witness: a database holds two records written by two different
\* accounts, the second just stored at index 1.
C16_Witness ==
    /\ receipt.fn = "storeValue" /\ receipt.status = Ok
    /\ receipt.logs = <<RecordStored(receipt.databaseId, 1)>>
    /\ _records[receipt.databaseId][1] # _records[receipt.databaseId][2]

\* What a failed call leaves: the storage it found, no log.
Rejected(tx) == tx.status # Ok => tx.storage = Storage /\ tx.logs = << >>

\* C17: every createDatabase, grantAccess or storeValue call that fails, on
\* any input, fails with one of the six error kinds, leaves the whole
\* storage (id counter, databases, owner lists, records, member maps and
\* lists, allowances) as it found it and logs nothing.
C17_FailedCallsChangeNothing ==
    /\ [](/\ \A sender \in Users, name \in Names, h \in ExternalEaddress,
                proof \in BOOLEAN, t \in Timestamps :
               LET tx == createDatabase(Storage, sender, name, h, proof, t)
               IN /\ Rejected(tx)
                  /\ tx.status \in {Ok, NameRequired, InvalidCiphertext}
          /\ \A sender \in Users, d \in DatabaseIds, user \in Addresses :
               LET tx == grantAccess(Storage, sender, d, user)
               IN /\ Rejected(tx)
                  /\ tx.status \in {Ok, DatabaseNotFound, InvalidUser, OnlyOwner}
          /\ \A sender \in Users, d \in DatabaseIds, h \in ExternalEuint32,
                proof \in BOOLEAN :
               LET tx == storeValue(Storage, sender, d, h, proof)
               IN /\ Rejected(tx)
                  /\ tx.status \in {Ok, DatabaseNotFound, NotAuthorized,
                                    InvalidCiphertext})
    /\ [][receipt'.status # Ok => Storage' = Storage /\ receipt'.logs = << >>]_vars

\* C17 witness: a createDatabase has just been rejected by the verifier in a
\* storage that holds a database with a record and a grantee.
C17_Witness ==
    /\ receipt.fn = "createDatabase" /\ receipt.status = InvalidCiphertext
    /\ databaseCount(Storage) = 1
    /\ Len(_records[1]) = 1
    /\ Len(_authorizedUsers[1]) = 2

Last(seq) == seq[Len(seq)]

\* C18: wherever a further database fits the model's bound, a createDatabase
\* that succeeds for caller c returns an id n for which getDatabase reports
\* the name given, owner c, the verified handle, the block's timestamp, no
\* record and the authorized list <<c>>; isAuthorized(n, c) is true, n is
\* the last id of c's owner list, and c and the contract are allowed on the
\* access handle.  createDatabase with an empty name fails with
\* "Name required", and with a non-empty name and an accepted input it
\* succeeds.
C18_CreateSetsUpTheDatabase ==
    databaseCount(Storage) < MaxDatabases =>
      \A c \in Users, name \in Names, h \in ExternalEaddress,
         proof \in BOOLEAN, t \in Timestamps :
        LET tx == createDatabase(Storage, c, name, h, proof, t)
            n == tx.ret
        IN /\ Len(name) = 0 => tx.status = NameRequired
           /\ (Len(name) > 0 /\ InputVerifies(h, proof, c, "eaddress"))
                => tx.status = Ok
           /\ tx.status = Ok =>
                /\ getDatabase(tx.storage, n).ret =
                     [name |-> name, owner |-> c, encryptedAccessAddress |-> h,
                      createdAt |-> t, recordCount |-> 0, sharedUsers |-> <<c>>]
                /\ getEncryptedAddress(tx.storage, n).ret = h
                /\ isAuthorized(tx.storage, n, c).ret
                /\ Last(getDatabasesByOwner(tx.storage, c).ret) = n
                /\ {c, ThisAddress} \subseteq tx.storage.allowed[h]
                /\ tx.logs = <<DatabaseCreated(n, c, name)>>

\* C18 witness: an account has just created its second database.
C18_Witness ==
    /\ receipt.fn = "createDatabase" /\ receipt.status = Ok
    /\ Len(getDatabasesByOwner(Storage, receipt.sender).ret) = 2
    /\ getDatabase(Storage, receipt.ret).ret.sharedUsers = <<receipt.sender>>

\* C19: grantAccess fails with "Database not found" on a database that does
\* not exist, whoever calls and whatever the identity; on one that exists
\* it fails with "Invalid user" for the zero identity, whoever calls; then
\* with "Only owner" for a caller that is not the owner; and only then is
\* the grant of an authorized identity the successful no-op.
C19_GrantChecksInOrder ==
    \A sender \in Users, d \in DatabaseIds, user \in Addresses :
      LET tx == grantAccess(Storage, sender, d, user)
      IN IF d \notin ExistingIds THEN tx.status = DatabaseNotFound
         ELSE IF user = ZeroAddress THEN tx.status = InvalidUser
         ELSE IF sender # OwnerOf(d) THEN tx.status = OnlyOwner
         ELSE IF user \in Members(d) THEN tx = Return(Storage, << >>, 0)
         ELSE tx.status = Ok /\ tx.logs = <<AccessGranted(d, user)>>

\* C19 witness: a caller that is not the owner has just been refused with
\* "Invalid user", and the id past the last database is not found.
C19_Witness ==
    /\ receipt.fn = "grantAccess" /\ receipt.status = InvalidUser
    /\ receipt.sender # OwnerOf(receipt.databaseId)
    /\ databaseCount(Storage) = 1
    /\ grantAccess(Storage, OwnerOf(1), 2, receipt.sender).status = DatabaseNotFound

Indexes == 0..(MaxRecords + 1)

\* C20: for every existing database, getEncryptedRecord fails with
\* "Invalid index" exactly when the index is at least the record count and
\* returns the record at that index otherwise; a successful storeValue
\* makes its handle the one returned at the index that was the record
\* count and leaves what the lower indexes return; getEncryptedRecords
\* returns the whole sequence, in order, as long as the record count.
C20_RecordReads ==
    \A d \in ExistingIds :
      /\ \A index \in Indexes :
           LET got == getEncryptedRecord(Storage, d, index)
           IN /\ got.status = InvalidIndex <=> index >= recordCount(Storage, d)
              /\ index < recordCount(Storage, d) =>
                   got = Return(Storage, << >>, _records[d][index + 1])
      /\ getEncryptedRecords(Storage, d).status = Ok
      /\ getEncryptedRecords(Storage, d).ret = _records[d]
      /\ Len(getEncryptedRecords(Storage, d).ret) = getDatabase(Storage, d).ret.recordCount
      /\ \A sender \in Users, h \in ExternalEuint32 :
           LET tx == storeValue(Storage, sender, d, h, TRUE)
           IN tx.status = Ok =>
                /\ getEncryptedRecord(tx.storage, d, recordCount(Storage, d)).ret = h
                /\ \A index \in 0..(recordCount(Storage, d) - 1) :
                     getEncryptedRecord(tx.storage, d, index).ret
                       = getEncryptedRecord(Storage, d, index).ret

\* C20 witness: a database holds one record, so index 0 is read and index 1
\* is out of range.
C20_Witness ==
    \E d \in ExistingIds :
      /\ recordCount(Storage, d) = 1
      /\ getEncryptedRecord(Storage, d, 0).status = Ok
      /\ getEncryptedRecord(Storage, d, 1).status = InvalidIndex
      /\ receipt.fn = "storeValue" /\ receipt.status = Ok /\ receipt.databaseId = d

\* C21: database 0 never exists; getDatabase, getEncryptedAddress,
\* getEncryptedRecords, getEncryptedRecord and isAuthorized fail with
\* "Database not found" for id 0 and for every id above the number of
\* databases created, whatever the identity or index asked for; and an id
\* starts being found only in the step in which a successful createDatabase
\* returns it.
C21_UnissuedIdsAreNotFound ==
    /\ [](/\ ~databaseExists(Storage, 0)
          /\ \A d \in DatabaseIds \ (1..databaseCount(Storage)) :
               /\ getDatabase(Storage, d) = Revert(Storage, DatabaseNotFound)
               /\ getEncryptedAddress(Storage, d) = Revert(Storage, DatabaseNotFound)
               /\ getEncryptedRecords(Storage, d) = Revert(Storage, DatabaseNotFound)
               /\ \A index \in Indexes :
                    getEncryptedRecord(Storage, d, index)
                      = Revert(Storage, DatabaseNotFound)
               /\ \A u \in Addresses :
                    isAuthorized(Storage, d, u) = Revert(Storage, DatabaseNotFound))
    /\ [][\A d \in DatabaseIds :
            (/\ getDatabase(Storage, d).status = DatabaseNotFound
             /\ getDatabase(Storage, d).status' = Ok)
              => Created /\ receipt'.ret = d]_vars

\* C21 witness: database 1 has just been created and is found, while ids 0
\* and 2 are not.
C21_Witness ==
    /\ receipt.fn = "createDatabase" /\ receipt.status = Ok /\ receipt.ret = 1
    /\ getDatabase(Storage, 1).status = Ok
    /\ getDatabase(Storage, 2).status = DatabaseNotFound
    /\ isAuthorized(Storage, 0, OwnerOf(1)).status = DatabaseNotFound

\* The one log of the step just taken, given field by field.
Logged(event, databaseId, account, name, recordIndex) ==
    receipt'.logs = <<[event |-> event, databaseId |-> databaseId,
                       account |-> account, name |-> name,
                       recordIndex |-> recordIndex]>>

\* C22: a successful createDatabase logs exactly DatabaseCreated(id, owner,
\* name) for the id it creates; a successful storeValue on d logs exactly
\* RecordStored(d, i) with i the record count before it, which then grows by
\* one (so d's indices come out as 0, 1, 2, ...); a grantAccess logs exactly
\* AccessGranted(d, u) when it adds u, who was not authorized before, is
\* authorized after and is not the owner, and logs nothing when it adds
\* nobody; a failed call logs nothing; a step that changes the storage logs
\* exactly one event; and an authorized pair stays authorized, so no pair
\* is logged twice.
C22_EventsMirrorMutations ==
    [][/\ Created =>
            LET n == receipt'.ret
            IN /\ n \notin ExistingIds /\ n \in ExistingIds'
               /\ Logged("DatabaseCreated", n, receipt'.sender, _databases'[n].name, 0)
               /\ _databases'[n].owner = receipt'.sender
       /\ Stored =>
            LET d == receipt'.databaseId
            IN /\ Logged("RecordStored", d, ZeroAddress, << >>, Len(_records[d]))
               /\ Len(_records'[d]) = Len(_records[d]) + 1
       /\ receipt'.fn = "grantAccess" =>
            LET d == receipt'.databaseId
            IN IF _authorizedUsers'[d] # _authorizedUsers[d]
               THEN \E u \in Addresses \ {OwnerOf(d)} :
                      /\ Logged("AccessGranted", d, u, << >>, 0)
                      /\ ~_isAuthorized[d][u] /\ _isAuthorized'[d][u]
                      /\ IsAppend(_authorizedUsers'[d], _authorizedUsers[d], u)
               ELSE receipt'.logs = << >> /\ _isAuthorized' = _isAuthorized
       /\ receipt'.status # Ok => receipt'.logs = << >>
       /\ Len(receipt'.logs) = (IF Storage' # Storage THEN 1 ELSE 0)
       /\ \A d \in DatabaseIds, u \in Addresses :
            _isAuthorized[d][u] => _isAuthorized'[d][u]]_vars

\* C22 witness: RecordStored(d, 1) has just been logged for a database that
\* was granted to a second identity.
C22_Witness ==
    /\ receipt.fn = "storeValue" /\ receipt.status = Ok
    /\ receipt.logs[1].event = "RecordStored" /\ receipt.logs[1].recordIndex = 1
    /\ Len(_authorizedUsers[receipt.databaseId]) >= 2

\* A read that answered: it succeeded, left the storage it was given and
\* logged nothing.
Answered(tx) == tx.status = Ok /\ tx.storage = Storage /\ tx.logs = << >>

\* C23: no read takes the caller into account, so what follows holds for
\* members and non-members alike.  On every existing database getDatabase,
\* getEncryptedAddress, getEncryptedRecords, getEncryptedRecord (at an index
\* below the record count) and isAuthorized (of any identity) succeed; every
\* read, failed or not and on any id, hands back the storage unchanged and
\* logs nothing; getDatabasesByOwner succeeds for every address, with the
\* empty sequence for one that owns no database; databaseCount always
\* answers with a number.
C23_ReadsChangeNothing ==
    /\ \A d \in ExistingIds :
         /\ Answered(getDatabase(Storage, d))
         /\ Answered(getEncryptedAddress(Storage, d))
         /\ Answered(getEncryptedRecords(Storage, d))
         /\ \A index \in 0..(recordCount(Storage, d) - 1) :
              Answered(getEncryptedRecord(Storage, d, index))
         /\ \A u \in Addresses : Answered(isAuthorized(Storage, d, u))
    /\ \A d \in DatabaseIds :
         /\ Rejected(getDatabase(Storage, d))
         /\ Rejected(getEncryptedAddress(Storage, d))
         /\ Rejected(getEncryptedRecords(Storage, d))
         /\ \A index \in Indexes : Rejected(getEncryptedRecord(Storage, d, index))
         /\ \A u \in Addresses : Rejected(isAuthorized(Storage, d, u))
    /\ \A a \in Addresses :
         /\ Answered(getDatabasesByOwner(Storage, a))
         /\ (\A d \in ExistingIds : OwnerOf(d) # a)
              => getDatabasesByOwner(Storage, a).ret = << >>
    /\ databaseCount(Storage) \in Nat

\* C23 witness: an account that is no member of database 1 and owns nothing
\* has just been refused a store there; database 1 holds a record, which is
\* read at index 0, and the account's owner list is empty.
C23_Witness ==
    /\ receipt.fn = "storeValue" /\ receipt.status = NotAuthorized
    /\ receipt.databaseId = 1 /\ 1 \in ExistingIds
    /\ ~isAuthorized(Storage, 1, receipt.sender).ret
    /\ getEncryptedRecord(Storage, 1, 0).status = Ok
    /\ getDatabasesByOwner(Storage, receipt.sender).ret = << >>

\* C24: every call is one step applied to the storage the call before it
\* left, so two calls sent at once take effect in one order or the other.
\* Two createDatabase calls that succeed one after the other, in either
\* order, get the next two ids, which differ.  The owner's grantAccess(d, u)
\* of a new identity and a member's accepted storeValue on d end in the
\* same storage whichever goes first: both succeed, u is authorized and
\* allowed on the new handle, the record sequence is the old one with the
\* handle appended and the authorized list the old one with u appended.
C24_CallsCommute ==
    /\ \A c1, c2 \in Users, h1, h2 \in ExternalEaddress, name \in Names,
          t \in Timestamps :
         LET first == createDatabase(Storage, c1, name, h1, TRUE, t)
             second == createDatabase(first.storage, c2, name, h2, TRUE, t)
         IN (first.status = Ok /\ second.status = Ok) =>
              /\ first.ret = databaseCount(Storage) + 1
              /\ second.ret = first.ret + 1
              /\ databaseCount(second.storage) = second.ret
    /\ \A d \in ExistingIds : \A u \in Addresses \ (Members(d) \cup {ZeroAddress}) :
         \A w \in Users \cap Members(d), h \in ExternalEuint32 :
           InputVerifies(h, TRUE, w, "euint32") =>
             LET granted == grantAccess(Storage, OwnerOf(d), d, u)
                 grantFirst == storeValue(granted.storage, w, d, h, TRUE)
                 stored == storeValue(Storage, w, d, h, TRUE)
                 storeFirst == grantAccess(stored.storage, OwnerOf(d), d, u)
             IN /\ granted.status = Ok /\ grantFirst.status = Ok
                /\ stored.status = Ok /\ storeFirst.status = Ok
                /\ grantFirst.storage = storeFirst.storage
                /\ \A end \in {grantFirst.storage, storeFirst.storage} :
                     /\ isAuthorized(end, d, u).ret
                     /\ u \in end.allowed[h]
                     /\ end._records[d] = Append(_records[d], h)
                     /\ end._authorizedUsers[d] = Append(_authorizedUsers[d], u)

\* C24 witness: a grantee that is not the owner has just stored a record in
\* a database that a further identity can still be granted.
C24_Witness ==
    /\ receipt.fn = "storeValue" /\ receipt.status = Ok
    /\ receipt.sender # OwnerOf(receipt.databaseId)
    /\ Addresses \ (Members(receipt.databaseId) \cup {ZeroAddress}) # {}

\* C25: storeValue checks existence, then membership, then the payload.  On
\* an id that does not exist it fails with "Database not found" whoever
\* calls and whatever is sent; on an existing database a caller that is not
\* authorized fails with "Not authorized", with an accepted payload and with
\* a rejected one; an authorized caller whose payload is rejected fails with
\* InvalidCiphertext, leaving the record count, the allowances and the whole
\* storage as they were and logging nothing; and only an authorized caller
\* with an accepted payload succeeds.
C25_StoreChecksInOrder ==
    \A sender \in Users, d \in DatabaseIds, h \in ExternalEuint32, proof \in BOOLEAN :
      LET tx == storeValue(Storage, sender, d, h, proof)
      IN IF d \notin ExistingIds THEN tx = Revert(Storage, DatabaseNotFound)
         ELSE IF ~isAuthorized(Storage, d, sender).ret
         THEN tx = Revert(Storage, NotAuthorized)
         ELSE IF ~InputVerifies(h, proof, sender, "euint32")
         THEN /\ tx.status = InvalidCiphertext
              /\ recordCount(tx.storage, d) = recordCount(Storage, d)
              /\ tx.storage.allowed = allowed
              /\ tx.storage = Storage
              /\ tx.logs = << >>
         ELSE tx.status = Ok

\* C25 witness: a member's payload has just been rejected on a database
\* that holds a record, and an account that is not a member is refused as
\* unauthorized with a payload that would be rejected too.
C25_Witness ==
    /\ receipt.fn = "storeValue" /\ receipt.status = InvalidCiphertext
    /\ recordCount(Storage, receipt.databaseId) >= 1
    /\ \E a \in Users \ Members(receipt.databaseId) : \E h \in ExternalEuint32 :
         /\ ~InputVerifies(h, FALSE, a, "euint32")
         /\ storeValue(Storage, a, receipt.databaseId, h, FALSE).status = NotAuthorized

\* C26: no storeValue call, on any input, changes any membership map or
\* authorized list, and no grantAccess call changes any record sequence
\* (or record count).  In every step, a database's membership map or list
\* changes only when the step is a grantAccess on it, by its owner, that
\* adds a member, or the createDatabase that creates it with an empty list;
\* and its record sequence changes only when the step is a successful
\* storeValue on it.
C26_OnlyGrantAndStoreChange ==
    /\ [](/\ \A sender \in Users, d \in DatabaseIds, h \in ExternalEuint32,
                proof \in BOOLEAN :
               LET tx == storeValue(Storage, sender, d, h, proof)
               IN /\ tx.storage._isAuthorized = _isAuthorized
                  /\ tx.storage._authorizedUsers = _authorizedUsers
          /\ \A sender \in Users, d \in DatabaseIds, user \in Addresses :
               LET tx == grantAccess(Storage, sender, d, user)
               IN /\ tx.storage._records = _records
                  /\ \A e \in DatabaseIds :
                       recordCount(tx.storage, e) = recordCount(Storage, e))
    /\ [][\A d \in DatabaseIds :
            /\ (\/ _isAuthorized'[d] # _isAuthorized[d]
                \/ _authorizedUsers'[d] # _authorizedUsers[d]) =>
                 \/ /\ GrantAdded /\ receipt'.databaseId = d
                    /\ d \in ExistingIds /\ receipt'.sender = OwnerOf(d)
                 \/ /\ Created /\ receipt'.ret = d
                    /\ d \notin ExistingIds /\ _authorizedUsers[d] = << >>
            /\ _records'[d] # _records[d] => StoredOn(d)]_vars

\* C26 witness: the owner has just added a member to a database that holds
\* one record, while a second database exists.
C26_Witness ==
    /\ receipt.fn = "grantAccess" /\ receipt.status = Ok /\ receipt.logs # << >>
    /\ receipt.sender = OwnerOf(receipt.databaseId)
    /\ Len(_records[receipt.databaseId]) = 1
    /\ Cardinality(ExistingIds) = 2

\* What a call on database d leaves alone: every other database's metadata,
\* records, membership map and list, the id counter and every owner list.
OthersUntouched(after, d) ==
    /\ \A e \in DatabaseIds \ {d} :
         /\ after._databases[e] = _databases[e]
         /\ after._records[e] = _records[e]
         /\ after._authorizedUsers[e] = _authorizedUsers[e]
         /\ after._isAuthorized[e] = _isAuthorized[e]
    /\ after._nextDatabaseId = _nextDatabaseId
    /\ after._databasesByOwner = _databasesByOwner

\* C27: a grantAccess or storeValue call that succeeds on database d, on
\* any input, leaves every other database's metadata, record sequence,
\* membership map and authorized list as they were (the grantee is
\* authorized on no other database than before), and leaves the id counter
\* and every owner list as they were; a createDatabase call that succeeds
\* leaves the records, membership map and authorized list of every existing
\* database as they were.
C27_DatabasesAreIsolated ==
    /\ \A sender \in Users, d \in DatabaseIds, user \in Addresses :
         LET tx == grantAccess(Storage, sender, d, user)
         IN tx.status = Ok =>
              /\ OthersUntouched(tx.storage, d)
              /\ \A e \in DatabaseIds \ {d} :
                   tx.storage._isAuthorized[e][user] = _isAuthorized[e][user]
    /\ \A sender \in Users, d \in DatabaseIds, h \in ExternalEuint32,
          proof \in BOOLEAN :
         LET tx == storeValue(Storage, sender, d, h, proof)
         IN tx.status = Ok => OthersUntouched(tx.storage, d)
    /\ \A sender \in Users, name \in Names, h \in ExternalEaddress,
          proof \in BOOLEAN, t \in Timestamps :
         LET tx == createDatabase(Storage, sender, name, h, proof, t)
         IN tx.status = Ok =>
              \A e \in ExistingIds :
                /\ tx.storage._databases[e] = _databases[e]
                /\ tx.storage._records[e] = _records[e]
                /\ tx.storage._authorizedUsers[e] = _authorizedUsers[e]
                /\ tx.storage._isAuthorized[e] = _isAuthorized[e]

\* C27 witness: with two databases of different owners, a grant on one has
\* just added an identity that is not authorized on the other, which holds
\* a record.
C27_Witness ==
    /\ receipt.fn = "grantAccess" /\ receipt.status = Ok /\ receipt.logs # << >>
    /\ \E e \in ExistingIds \ {receipt.databaseId} :
         /\ OwnerOf(e) # OwnerOf(receipt.databaseId)
         /\ ~_isAuthorized[e][receipt.logs[1].account]
         /\ Len(_records[e]) >= 1

\* C28: with callers that are never the zero address, an id passes the
\* existence check exactly when it lies between 1 and databaseCount: the
\* ids issued have no gap and no other id is found.  A createDatabase call
\* that fails (empty name or rejected input) leaves the counter and the set
\* of existing ids as they were; one that succeeds makes exactly the id
\* after the counter exist.
C28_ExistsIffIssued ==
    /\ \A d \in DatabaseIds :
         databaseExists(Storage, d) <=> (1 <= d /\ d <= databaseCount(Storage))
    /\ \A sender \in Users, name \in Names, h \in ExternalEaddress,
          proof \in BOOLEAN, t \in Timestamps :
         LET tx == createDatabase(Storage, sender, name, h, proof, t)
             found == {d \in DatabaseIds : databaseExists(tx.storage, d)}
         IN /\ sender # ZeroAddress
            /\ tx.status # Ok =>
                 /\ tx.status \in {NameRequired, InvalidCiphertext}
                 /\ databaseCount(tx.storage) = databaseCount(Storage)
                 /\ found = ExistingIds
            /\ (tx.status = Ok /\ databaseCount(Storage) < MaxDatabases) =>
                 /\ databaseCount(tx.storage) = databaseCount(Storage) + 1
                 /\ found = ExistingIds \cup {databaseCount(Storage) + 1}
                 /\ found = 1..databaseCount(tx.storage)

\* C28 witness: a createDatabase with an empty name has just failed after
\* database 1 was created; id 1 is found, id 2 is not, and the next
\* creation gets id 2.
C28_Witness ==
    /\ receipt.fn = "createDatabase" /\ receipt.status = NameRequired
    /\ databaseCount(Storage) = 1
    /\ databaseExists(Storage, 1) /\ ~databaseExists(Storage, 2)
    /\ \E h \in ExternalEaddress :
         createDatabase(Storage, h.user, <<"o", "p", "s">>, h, TRUE, 1).ret = 2

\* C29: with callers that are never the zero address, in every reachable
\* state the zero address owns none of the databases created, is set in no
\* database's membership map and occurs in no authorized list; a grant to
\* it is refused whoever asks.
C29_ZeroIsNobody ==
    /\ \A d \in 1..databaseCount(Storage) :
         /\ OwnerOf(d) # ZeroAddress
         /\ getDatabase(Storage, d).ret.owner \in Users
    /\ \A d \in DatabaseIds :
         /\ ~_isAuthorized[d][ZeroAddress]
         /\ \A i \in 1..Len(_authorizedUsers[d]) : _authorizedUsers[d][i] # ZeroAddress
         /\ ZeroAddress \notin Members(d)
    /\ \A sender \in Users, d \in DatabaseIds :
         grantAccess(Storage, sender, d, ZeroAddress).status
           \in {DatabaseNotFound, InvalidUser}

\* C29 witness: the owner of a database with a grantee has just been
\* refused a grant to the zero address.
C29_Witness ==
    /\ receipt.fn = "grantAccess" /\ receipt.status = InvalidUser
    /\ receipt.sender = OwnerOf(receipt.databaseId)
    /\ Len(_authorizedUsers[receipt.databaseId]) >= 2

\* ======================================================================
\* The two loops, one iteration per step
\* ======================================================================
\* The loop ends one record early: i < stored.length - 1.
moreRecordsButLast(stored, i) == i < Len(stored) - 1

\* grantAccess, line 84: i < stored.length
moreRecords(stored, i) == i < Len(stored)

\* storeValue, line 112: i < shared.length
moreUsers(shared, i) == i < Len(shared)

\* A call that is still running has no status and no log yet.
Running == "running"

InFlight(fn, sender, databaseId) ==
    [fn |-> fn, sender |-> sender, databaseId |-> databaseId,
     status |-> Running, logs |-> << >>, ret |-> 0]

\* A call that has no loop to run, as one step: createDatabase, a
\* grantAccess that fails or finds the user authorized, a storeValue that
\* fails.
CallWithoutLoop ==
    /\ frame.fn = "none"
    /\ \/ CreateDatabase
       \/ GrantAccess /\ receipt'.logs = << >>
       \/ StoreValue /\ receipt'.status # Ok

\* grantAccess, lines 69-81: the checks pass and the user is authorized,
\* listed and allowed on the access handle; the loop is about to start.
BeginGrantAccess ==
    /\ frame.fn = "none"
    /\ \E sender \in Users, databaseId \in DatabaseIds, user \in Addresses,
          timestamp \in LaterTimestamps :
         /\ databaseExists(Storage, databaseId)
         /\ validUser(user)
         /\ onlyOwner(Storage, databaseId, sender)
         /\ ~alreadyAuthorized(Storage, databaseId, user)
         /\ _isAuthorized' = authorize(_isAuthorized, databaseId, user)
         /\ _authorizedUsers' = [_authorizedUsers EXCEPT ![databaseId] = pushUser(@, user)]
         /\ allowed' = (IF isInitialized(_databases[databaseId].encryptedAccessAddress)
                        THEN allow(allowed, _databases[databaseId].encryptedAccessAddress,
                                   user)
                        ELSE allowed)
         /\ blockTimestamp' = timestamp
         /\ frame' = [fn |-> "grantAccess", sender |-> sender,
                      databaseId |-> databaseId, account |-> user,
                      value |-> NoHandle, i |-> 0, before |-> Storage]
         /\ receipt' = InFlight("grantAccess", sender, databaseId)
         /\ UNCHANGED <<_nextDatabaseId, _databases, _databasesByOwner, _records>>

\* grantAccess, lines 84-85: FHE.allow(stored[i], user); i++
GrantAccessLoop ==
    /\ frame.fn = "grantAccess"
    /\ moreRecords(_records[frame.databaseId], frame.i)
    /\ allowed' = allow(allowed, _records[frame.databaseId][frame.i + 1], frame.account)
    /\ frame' = [frame EXCEPT !.i = @ + 1]
    /\ UNCHANGED <<_nextDatabaseId, _databases, _databasesByOwner, _records,
                   _authorizedUsers, _isAuthorized, blockTimestamp, receipt>>

\* grantAccess, line 88: the loop is over, the event is emitted, the call ends.
EndGrantAccess ==
    /\ frame.fn = "grantAccess"
    /\ ~moreRecords(_records[frame.databaseId], frame.i)
    /\ receipt' = [fn |-> "grantAccess", sender |-> frame.sender,
                   databaseId |-> frame.databaseId, status |-> Ok,
                   logs |-> <<AccessGranted(frame.databaseId, frame.account)>>,
                   ret |-> 0]
    /\ frame' = NoCall
    /\ UNCHANGED <<_nextDatabaseId, _databases, _databasesByOwner, _records,
                   _authorizedUsers, _isAuthorized, allowed, blockTimestamp>>

\* storeValue, lines 100-109: the checks pass, the handle is pushed and
\* allowed to the contract and to the owner; the loop is about to start.
BeginStoreValue ==
    /\ frame.fn = "none"
    /\ \E sender \in Users, databaseId \in DatabaseIds,
          encryptedValue \in ExternalEuint32, valueProof \in BOOLEAN,
          timestamp \in LaterTimestamps :
         /\ databaseExists(Storage, databaseId)
         /\ senderAuthorized(Storage, databaseId, sender)
         /\ InputVerifies(encryptedValue, valueProof, sender, "euint32")
         /\ Len(_records[databaseId]) < MaxRecords
         /\ _records' = [_records EXCEPT
                           ![databaseId] = pushRecord(@, fromExternal(encryptedValue))]
         /\ allowed' = allow(allowThis(allowed, fromExternal(encryptedValue)),
                             fromExternal(encryptedValue),
                             _databases[databaseId].owner)
         /\ blockTimestamp' = timestamp
         /\ frame' = [fn |-> "storeValue", sender |-> sender,
                      databaseId |-> databaseId, account |-> ZeroAddress,
                      value |-> fromExternal(encryptedValue), i |-> 0,
                      before |-> Storage]
         /\ receipt' = InFlight("storeValue", sender, databaseId)
         /\ UNCHANGED <<_nextDatabaseId, _databases, _databasesByOwner,
                        _authorizedUsers, _isAuthorized>>

\* storeValue, lines 112-113: FHE.allow(value, shared[i]); i++
StoreValueLoop ==
    /\ frame.fn = "storeValue"
    /\ moreUsers(_authorizedUsers[frame.databaseId], frame.i)
    /\ allowed' = allow(allowed, frame.value,
                        _authorizedUsers[frame.databaseId][frame.i + 1])
    /\ frame' = [frame EXCEPT !.i = @ + 1]
    /\ UNCHANGED <<_nextDatabaseId, _databases, _databasesByOwner, _records,
                   _authorizedUsers, _isAuthorized, blockTimestamp, receipt>>

\* storeValue, line 116: the loop is over, the event is emitted, the call ends.
EndStoreValue ==
    /\ frame.fn = "storeValue"
    /\ ~moreUsers(_authorizedUsers[frame.databaseId], frame.i)
    /\ receipt' = [fn |-> "storeValue", sender |-> frame.sender,
                   databaseId |-> frame.databaseId, status |-> Ok,
                   logs |-> <<RecordStored(frame.databaseId,
                                           Len(_records[frame.databaseId]) - 1)>>,
                   ret |-> 0]
    /\ frame' = NoCall
    /\ UNCHANGED <<_nextDatabaseId, _databases, _databasesByOwner, _records,
                   _authorizedUsers, _isAuthorized, allowed, blockTimestamp>>

NextStep ==
    \/ CallWithoutLoop
    \/ BeginGrantAccess \/ GrantAccessLoop \/ EndGrantAccess
    \/ BeginStoreValue \/ StoreValueLoop \/ EndStoreValue

\* A call that has started is run on by the EVM until it ends: nothing else
\* runs in between and nothing suspends it.
CallsRunOn ==
    /\ WF_vars(GrantAccessLoop) /\ WF_vars(EndGrantAccess)
    /\ WF_vars(StoreValueLoop) /\ WF_vars(EndStoreValue)

SpecStep == Init /\ [][NextStep]_vars /\ CallsRunOn

\* C30: every call that starts ends.  A call with no loop to run is one
\* step that either fails and leaves the storage as it found it or
\* succeeds.  While a loop runs nothing but its index and the allowances
\* moves, and the index grows by one per grant.  A grantAccess ends after
\* exactly as many grants as the database had records, a storeValue after
\* exactly one grant per entry of the authorized list, and each ends in the
\* storage and with the log of the whole call applied to the storage it
\* found.  Between calls every member is allowed on every record and on the
\* access handle of its database: no record is half appended and no grant
\* half applied.
C30_CallsRunToCompletion ==
    /\ [][/\ (frame.fn = "none" /\ frame'.fn = "none") =>
               (receipt'.status # Ok => Storage' = Storage)
          /\ (frame.fn # "none" /\ frame'.fn # "none") =>
               /\ frame'.i = frame.i + 1
               /\ frame' = [frame EXCEPT !.i = frame'.i]
               /\ [Storage' EXCEPT !.allowed = allowed] = Storage
          /\ (frame.fn = "grantAccess" /\ frame'.fn = "none") =>
               LET tx == grantAccess(frame.before, frame.sender, frame.databaseId,
                                     frame.account)
               IN /\ frame.i = recordCount(frame.before, frame.databaseId)
                  /\ tx.status = Ok
                  /\ Storage' = tx.storage
                  /\ receipt'.logs = tx.logs
          /\ (frame.fn = "storeValue" /\ frame'.fn = "none") =>
               LET tx == storeValue(frame.before, frame.sender, frame.databaseId,
                                    frame.value, TRUE)
               IN /\ frame.i = Len(frame.before._authorizedUsers[frame.databaseId])
                  /\ tx.status = Ok
                  /\ Storage' = tx.storage
                  /\ receipt'.logs = tx.logs]_vars
    /\ [](frame.fn = "none" => C1_MembersSeeEveryRecord /\ C2_MembersSeeAccessHandle)
    /\ (frame.fn # "none") ~> (frame.fn = "none")

\* C30 witness: a grantAccess on a database of two records has made its two
\* grants and is about to end.
C30_Witness ==
    /\ frame.fn = "grantAccess"
    /\ frame.i = 2
    /\ Len(_records[frame.databaseId]) = 2

====
